---- MODULE Spec2Model ----
(***************************************************************************)
(* Model of iptables_reporter (src/src/main.rs): main reads a kernel log   *)
(* line by line (parse_log_file), aggregates the denial records            *)
(* (analyze_entries) and renders the report (print_text_report or JSON).   *)
(*                                                                         *)
(* Strings are sequences of one-character strings, so that contains,       *)
(* split_whitespace, split('='), trim_end_matches(':') and the u16 and     *)
(* timestamp parsers are computed character by character.                  *)
(* Option<T> is a sequence of length 0 (None) or 1 (Some).                 *)
(***************************************************************************)
EXTENDS Integers, Sequences, FiniteSets, TLC

VARIABLES args, file, pc, pos, entries, outcomes, err, report, dest_iter, output

vars == <<args, file, pc, pos, entries, outcomes, err, report, dest_iter, output>>

\* ------------------------------------------------------------------ bounds
\* Longest log file explored with every combination of arguments.
MaxLines == 3
\* Most tokens appended to a header when building the single-line inputs.
MaxExtra == 2
\* Largest --top value explored besides the default.
MaxTop == 2

\* ------------------------------------------------------- program constants
\* `parts.len() < 6`
MinParts == 6
\* `parts[3]`
ChainIndex == 3
\* u16::MAX, the width of dest_port
U16Max == 65535
\* `#[arg(short, long, default_value = "10")] top`
DefaultTop == 10
\* `ports.iter().take(10)`
PortRows == 10
\* `for hour in 0..24`
HoursPerDay == 24

\* ------------------------------------------------------------ string data
KERNEL_MARKER == <<"k","e","r","n","e","l",":">>
DROP_MARKER == <<"D","R","O","P","_","I","P","V","4">>
KEY_SRC == <<"S","R","C">>
KEY_DST == <<"D","S","T">>
KEY_PROTO == <<"P","R","O","T","O">>
KEY_OUT == <<"O","U","T">>
KEY_DPT == <<"D","P","T">>
ACTION_DENIED == <<"D","E","N","I","E","D">>

None == <<>>
Some(x) == <<x>>

DigitChars == {"0","1","2","3","4","5","6","7","8","9"}
DigitVal(c) ==
  CASE c = "0" -> 0 [] c = "1" -> 1 [] c = "2" -> 2 [] c = "3" -> 3 [] c = "4" -> 4
    [] c = "5" -> 5 [] c = "6" -> 6 [] c = "7" -> 7 [] c = "8" -> 8 [] c = "9" -> 9

\* char::is_whitespace, for the characters a line of the log can hold
IsWhitespace(c) == c \in {" ", "\t"}

\* str::contains(pat)
Contains(s, pat) ==
  \E i \in 0..(Len(s) - Len(pat)) : SubSeq(s, i + 1, i + Len(pat)) = pat

\* The pieces of s between the positions in cuts, in order (empty pieces
\* included): what a splitting iterator yields, collected.
SplitAt(s, cuts) ==
  LET n == Cardinality(cuts)
      cut == [k \in 1..n |-> CHOOSE i \in cuts : Cardinality({j \in cuts : j < i}) = k - 1]
      from(k) == IF k = 1 THEN 1 ELSE cut[k - 1] + 1
      to(k) == IF k = n + 1 THEN Len(s) ELSE cut[k] - 1
  IN [k \in 1..(n + 1) |-> SubSeq(s, from(k), to(k))]

IsNonEmpty(piece) == piece # <<>>

\* str::split_whitespace().collect(): the maximal runs of non-whitespace
split_whitespace(s) ==
  SelectSeq(SplitAt(s, {i \in 1..Len(s) : IsWhitespace(s[i])}), IsNonEmpty)

\* str::split(sep).collect(): the pieces between the separators, empty
\* pieces included
split(s, sep) == SplitAt(s, {i \in 1..Len(s) : s[i] = sep})

\* str::trim_end_matches(':'): every trailing ':' is removed
RECURSIVE trim_end_matches(_, _)
trim_end_matches(s, c) ==
  IF s # <<>> /\ s[Len(s)] = c
  THEN trim_end_matches(SubSeq(s, 1, Len(s) - 1), c)
  ELSE s

\* The digit loop of u16::from_str: checked multiply and add, None on a
\* non-digit or on overflow.
RECURSIVE ParseDigitsU16(_, _, _)
ParseDigitsU16(s, i, acc) ==
  IF i > Len(s)
  THEN Some(acc)
  ELSE IF s[i] \notin DigitChars
       THEN None
       ELSE IF acc * 10 + DigitVal(s[i]) > U16Max
            THEN None
            ELSE ParseDigitsU16(s, i + 1, acc * 10 + DigitVal(s[i]))

\* Variant of ParseU16: the digits are accumulated with wrapping arithmetic,
\* as `acc.wrapping_mul(10).wrapping_add(d)` would, so no value overflows.
RECURSIVE ParseDigitsWrapping(_, _, _)
ParseDigitsWrapping(s, i, acc) ==
  IF i > Len(s)
  THEN Some(acc)
  ELSE IF s[i] \notin DigitChars
       THEN None
       ELSE ParseDigitsWrapping(s, i + 1, (acc * 10 + DigitVal(s[i])) % (U16Max + 1))
ParseU16Wrapping(s) ==
  IF s = <<>> THEN None
  ELSE IF Len(s) = 1 /\ s[1] \in {"+", "-"} THEN None
  ELSE IF s[1] = "+" THEN ParseDigitsWrapping(s, 2, 0)
  ELSE ParseDigitsWrapping(s, 1, 0)

\* `value.parse().ok()` at type Option<u16>: empty, a lone sign, a '-' or any
\* other non-digit, and a value above u16::MAX all give None; one leading '+'
\* is accepted.
ParseU16(s) ==
  IF s = <<>> THEN None
  ELSE IF Len(s) = 1 /\ s[1] \in {"+", "-"} THEN None
  ELSE IF s[1] = "+" THEN ParseDigitsU16(s, 2, 0)
  ELSE ParseDigitsU16(s, 1, 0)

\* ------------------------------------------------------------- timestamps
\* A timestamp is kept as its UTC second of the day (the date is dropped:
\* the program only ever reads `timestamp.hour()`).
IsDigitAt(s, i) == i <= Len(s) /\ s[i] \in DigitChars
IsCharAt(s, i, c) == i <= Len(s) /\ s[i] = c
TwoDigits(s, i) ==
  IF IsDigitAt(s, i) /\ IsDigitAt(s, i + 1)
  THEN DigitVal(s[i]) * 10 + DigitVal(s[i + 1])
  ELSE -1

\* First index at or after i that holds no digit.
RECURSIVE SkipDigits(_, _)
SkipDigits(s, i) == IF IsDigitAt(s, i) THEN SkipDigits(s, i + 1) ELSE i

\* DateTime::parse_from_str(ts, "%Y-%m-%dT%H:%M:%S%.f%z") followed by
\* with_timezone(&Utc), for timestamps written with fixed-width fields:
\* YYYY-MM-DDTHH:MM:SS, an optional fraction ".d+", and an offset
\* (+|-)HH[:]MM.  Anything else is a parse error (None).
ParseTimestamp(s) ==
  LET month  == TwoDigits(s, 6)
      day    == TwoDigits(s, 9)
      hour   == TwoDigits(s, 12)
      minute == TwoDigits(s, 15)
      second == TwoDigits(s, 18)
      dateOk == /\ IsDigitAt(s, 1) /\ IsDigitAt(s, 2) /\ IsDigitAt(s, 3) /\ IsDigitAt(s, 4)
                /\ IsCharAt(s, 5, "-") /\ month \in 1..12
                /\ IsCharAt(s, 8, "-") /\ day \in 1..31
                /\ IsCharAt(s, 11, "T") /\ hour \in 0..23
                /\ IsCharAt(s, 14, ":") /\ minute \in 0..59
                /\ IsCharAt(s, 17, ":") /\ second \in 0..59
      hasFrac == IsCharAt(s, 20, ".")
      fracEnd == IF hasFrac THEN SkipDigits(s, 21) ELSE 20
      fracOk  == hasFrac => fracEnd > 21
      sgn     == fracEnd
      offH    == TwoDigits(s, sgn + 1)
      colon   == IsCharAt(s, sgn + 3, ":")
      mmAt    == IF colon THEN sgn + 4 ELSE sgn + 3
      offM    == TwoDigits(s, mmAt)
      offOk   == /\ sgn <= Len(s) /\ s[sgn] \in {"+", "-"}
                 /\ offH \in 0..23 /\ offM \in 0..59
                 /\ Len(s) = mmAt + 1
      local   == hour * 3600 + minute * 60 + second
      offset  == (IF s[sgn] = "-" THEN -1 ELSE 1) * (offH * 3600 + offM * 60)
  IN IF dateOk /\ fracOk /\ offOk
     THEN Some((local - offset) % 86400)
     ELSE None

\* `.unwrap_or_else(|_| Utc::now())`: the wall clock is read only when the
\* token does not parse.
TimestampOf(tok, now) ==
  LET parsed == ParseTimestamp(tok)
  IN IF parsed = None THEN now ELSE parsed[1]

\* DateTime::hour()
HourOf(ts) == ts \div 3600

\* ---------------------------------------------------------- parse_log_file
\* `line.contains("kernel:") && line.contains("DROP_IPV4")`, the negation of
\* the first `continue`
IsCandidate(line) == Contains(line, KERNEL_MARKER) /\ Contains(line, DROP_MARKER)

\* Variants of HasEnoughParts: `parts.len() <= 6` as the skip condition, and
\* a threshold that no longer covers parts[3].
MoreThanMinParts(parts) == Len(parts) > MinParts
HasThreeParts(parts) == Len(parts) >= ChainIndex

\* `parts.len() < 6` is the second `continue`
HasEnoughParts(parts) == Len(parts) >= MinParts

\* The five `let mut` locals before the key-value loop.
InitFields ==
  [source_ip |-> <<>>, dest_ip |-> <<>>, protocol |-> <<>>,
   interface |-> None, dest_port |-> None]

\* Variant of ValueOfPart: everything after the first '=', as
\* `part.split_once('=')` would give.
RestOfPart(part) ==
  LET first == CHOOSE i \in 1..Len(part) : part[i] = "=" /\ \A j \in 1..(i - 1) : part[j] # "="
  IN SubSeq(part, first + 1, Len(part))

\* `let mut kv = part.split('='); kv.next(); kv.next()`: the first two pieces
KeyOfPart(part) == split(part, "=")[1]
ValueOfPart(part) == split(part, "=")[2]

\* The body of `for part in &parts`.
ApplyPart(f, part) ==
  IF ~Contains(part, <<"=">>)
  THEN f
  ELSE LET key == KeyOfPart(part)
           value == ValueOfPart(part)
       IN CASE key = KEY_SRC   -> [f EXCEPT !.source_ip = value]
            [] key = KEY_DST   -> [f EXCEPT !.dest_ip = value]
            [] key = KEY_PROTO -> [f EXCEPT !.protocol = value]
            [] key = KEY_OUT   -> IF value # <<>>
                                  THEN [f EXCEPT !.interface = Some(value)]
                                  ELSE f
            [] key = KEY_DPT   -> [f EXCEPT !.dest_port = ParseU16(value)]
            [] OTHER           -> f

\* `for part in &parts { ... }`: every token of the line, in order.
RECURSIVE ScanFrom(_, _, _)
ScanFrom(parts, i, f) ==
  IF i > Len(parts) THEN f ELSE ScanFrom(parts, i + 1, ApplyPart(f, parts[i]))

\* Variant of ScanParts: the tokens are applied last to first, so the first
\* token with a key decides.
RECURSIVE ScanBack(_, _, _)
ScanBack(parts, i, f) ==
  IF i < 1 THEN f ELSE ScanBack(parts, i - 1, ApplyPart(f, parts[i]))
ScanPartsFirstWins(parts) == ScanBack(parts, Len(parts), InitFields)

ScanParts(parts) == ScanFrom(parts, 1, InitFields)

\* Variant of RequiredPresent: `||` in place of `&&`.
AnyRequiredPresent(f) == f.source_ip # <<>> \/ f.dest_ip # <<>> \/ f.protocol # <<>>

\* `!source_ip.is_empty() && !dest_ip.is_empty() && !protocol.is_empty()`
RequiredPresent(f) == f.source_ip # <<>> /\ f.dest_ip # <<>> /\ f.protocol # <<>>

IptablesEntry(timestamp, f, chain) ==
  [timestamp |-> timestamp, source_ip |-> f.source_ip, dest_ip |-> f.dest_ip,
   dest_port |-> f.dest_port, protocol |-> f.protocol, interface |-> f.interface,
   chain |-> chain, action |-> ACTION_DENIED]

\* One iteration of `for line in reader.lines()` after `line?` succeeded.
\* ctl is "next" when the iteration completes (a `continue` included) and
\* "panic" when an index is out of bounds; pushed is what entries.push got.
ProcessLine(line, now) ==
  IF ~IsCandidate(line)
  THEN [ctl |-> "next", pushed |-> <<>>]
  ELSE LET parts == split_whitespace(line)
       IN IF ~HasEnoughParts(parts)
          THEN [ctl |-> "next", pushed |-> <<>>]
          ELSE IF Len(parts) < 1 \/ Len(parts) < ChainIndex + 1
               THEN [ctl |-> "panic", pushed |-> <<>>]
               ELSE LET timestamp == TimestampOf(parts[1], now)
                        chain == trim_end_matches(parts[ChainIndex + 1], ":")
                        f == ScanParts(parts)
                    IN IF RequiredPresent(f)
                       THEN [ctl |-> "next",
                             pushed |-> <<IptablesEntry(timestamp, f, chain)>>]
                       ELSE [ctl |-> "next", pushed |-> <<>>]

\* Variant of PushAll: `entries.insert(0, ...)`.
PushFront(v, pushed) == pushed \o v

\* Vec::push of what one iteration produced (nothing or one entry).
PushAll(v, pushed) == v \o pushed

\* --------------------------------------------------------- analyze_entries
EmptyMap == [k \in {} |-> 0]

\* Variant of Increment: `map.entry(key).or_insert(1);`, which never counts
\* past the first occurrence.
InsertOnce(m, key) ==
  IF key \in DOMAIN m
  THEN m
  ELSE [k \in DOMAIN m \cup {key} |-> IF k = key THEN 1 ELSE m[k]]

\* `*map.entry(key).or_insert(0) += 1`
Increment(m, key) ==
  IF key \in DOMAIN m
  THEN [m EXCEPT ![key] = @ + 1]
  ELSE [k \in DOMAIN m \cup {key} |-> IF k = key THEN 1 ELSE m[k]]

\* The counting loop for one map: keys holds, in entry order, the key each
\* entry contributes.
RECURSIVE CountKeys(_)
CountKeys(keys) ==
  IF keys = <<>>
  THEN EmptyMap
  ELSE Increment(CountKeys(SubSeq(keys, 1, Len(keys) - 1)), keys[Len(keys)])

DestKeys(es) == [i \in 1..Len(es) |-> es[i].dest_ip]
ProtocolKeys(es) == [i \in 1..Len(es) |-> es[i].protocol]
ChainKeys(es) == [i \in 1..Len(es) |-> es[i].chain]
HourKeys(es) == [i \in 1..Len(es) |-> HourOf(es[i].timestamp)]

\* `if let Some(port) = entry.dest_port`
RECURSIVE PortKeys(_)
PortKeys(es) ==
  IF es = <<>>
  THEN <<>>
  ELSE IF es[1].dest_port = None
       THEN PortKeys(Tail(es))
       ELSE <<es[1].dest_port[1]>> \o PortKeys(Tail(es))

\* The orders in which a HashMap with key set S may enumerate its keys: the
\* hasher is seeded per process, so every order is possible.
Orderings(S) ==
  {o \in [1..Cardinality(S) -> S] : \A i, j \in 1..Cardinality(S) : o[i] = o[j] => i = j}

\* `map.into_iter().collect()` / `map.iter().collect()` under enumeration
\* order `order`: the (key, count) pairs.
Collect(m, order) == [i \in 1..Len(order) |-> <<order[i], m[order[i]]>>]

\* One insertion of the stable sort: x goes behind every pair whose count is
\* not smaller.
RECURSIVE InsertByCountDesc(_, _)
InsertByCountDesc(sorted, x) ==
  IF sorted = <<>>
  THEN <<x>>
  ELSE IF sorted[1][2] >= x[2]
       THEN <<sorted[1]>> \o InsertByCountDesc(Tail(sorted), x)
       ELSE <<x>> \o sorted

RECURSIVE SortFrom(_, _, _)
SortFrom(pairs, i, sorted) ==
  IF i > Len(pairs)
  THEN sorted
  ELSE SortFrom(pairs, i + 1, InsertByCountDesc(sorted, pairs[i]))

\* Variants of SortByCountDesc: the comparator turned round
\* (`a.1.cmp(&b.1)`), and a sort that does not keep equal counts in their
\* incoming order.
RECURSIVE InsertByCountAsc(_, _)
InsertByCountAsc(sorted, x) ==
  IF sorted = <<>>
  THEN <<x>>
  ELSE IF sorted[1][2] <= x[2]
       THEN <<sorted[1]>> \o InsertByCountAsc(Tail(sorted), x)
       ELSE <<x>> \o sorted
RECURSIVE SortAscFrom(_, _, _)
SortAscFrom(pairs, i, sorted) ==
  IF i > Len(pairs)
  THEN sorted
  ELSE SortAscFrom(pairs, i + 1, InsertByCountAsc(sorted, pairs[i]))
SortByCountAsc(pairs) == SortAscFrom(pairs, 1, <<>>)
RECURSIVE InsertBeforeEqual(_, _)
InsertBeforeEqual(sorted, x) ==
  IF sorted = <<>>
  THEN <<x>>
  ELSE IF sorted[1][2] > x[2]
       THEN <<sorted[1]>> \o InsertBeforeEqual(Tail(sorted), x)
       ELSE <<x>> \o sorted
RECURSIVE SortUnstableFrom(_, _, _)
SortUnstableFrom(pairs, i, sorted) ==
  IF i > Len(pairs)
  THEN sorted
  ELSE SortUnstableFrom(pairs, i + 1, InsertBeforeEqual(sorted, pairs[i]))
SortByCountDescUnstable(pairs) == SortUnstableFrom(pairs, 1, <<>>)

\* `sort_by(|a, b| b.1.cmp(&a.1))`: slice::sort_by is stable
SortByCountDesc(pairs) == SortFrom(pairs, 1, <<>>)

\* analyze_entries, given the order in which dest_ip_counts is enumerated.
AnalysisReport(es, destOrder) ==
  [total_denials |-> Len(es),
   top_dest_ips |-> SortByCountDesc(Collect(CountKeys(DestKeys(es)), destOrder)),
   protocol_distribution |-> CountKeys(ProtocolKeys(es)),
   port_distribution |-> CountKeys(PortKeys(es)),
   chain_distribution |-> CountKeys(ChainKeys(es)),
   hourly_distribution |-> CountKeys(HourKeys(es)),
   entries |-> es]

\* -------------------------------------------------------- print_text_report
\* Iterator::take(n)
Take(s, n) == SubSeq(s, 1, IF n < Len(s) THEN n ELSE Len(s))

\* `for hour in 0..24 { if let Some(count) = hourly_distribution.get(&hour)`
RECURSIVE HourRows(_, _)
HourRows(m, hour) ==
  IF hour >= HoursPerDay
  THEN <<>>
  ELSE (IF hour \in DOMAIN m THEN <<<<hour, m[hour]>>>> ELSE <<>>) \o HourRows(m, hour + 1)

\* The rows print_text_report writes, section by section.  The protocol and
\* chain sections are kept as sets of rows: their order is the maps'
\* enumeration order.
TextReport(r, top_n, portOrder) ==
  [format |-> "text",
   total |-> r.total_denials,
   top_rows |-> Take(r.top_dest_ips, top_n),
   protocol_rows |-> {<<k, r.protocol_distribution[k]>> : k \in DOMAIN r.protocol_distribution},
   port_section |-> DOMAIN r.port_distribution # {},
   port_rows |-> Take(SortByCountDesc(Collect(r.port_distribution, portOrder)), PortRows),
   chain_rows |-> {<<k, r.chain_distribution[k]>> : k \in DOMAIN r.chain_distribution},
   hour_rows |-> HourRows(r.hourly_distribution, 0)]

\* serde_json::to_string_pretty(&report): every field of the report.
JsonReport(r) == [format |-> "json", report |-> r]

\* ------------------------------------------------------------------ inputs
TsUtc == <<"2","0","2","4","-","0","1","-","1","5","T","0","3",":","2","2",":","1","0",".","5","0","0","+","0","0",":","0","0">>
TsOffset == <<"2","0","2","4","-","0","1","-","1","5","T","0","1",":","0","5",":","0","0",".","2","5","+","0","2","0","0">>
TsSyslog == <<"J","a","n","1","5">>
TokHost == <<"h","o","s","t","A">>
TokSshd == <<"s","s","h","d",":">>
TokInput == <<"I","N","P","U","T",":">>
TokForward == <<"F","O","R","W","A","R","D",":",":">>
TokAccept == <<"A","C","C","E","P","T">>
TokGlued == <<"k","e","r","n","e","l",":","D","R","O","P","_","I","P","V","4">>
TokSrcA == <<"S","R","C","=","2","0","3",".","0",".","1","1","3",".","7">>
TokSrcH == <<"S","R","C","=","h">>
TokDstA == <<"D","S","T","=","1","0",".","0",".","0",".","5">>
TokDstB == <<"D","S","T","=","1","0",".","0",".","0",".","6">>
TokTcp == <<"P","R","O","T","O","=","T","C","P">>
TokUdp == <<"P","R","O","T","O","=","U","D","P">>
TokDpt22 == <<"D","P","T","=","2","2">>
TokDpt53 == <<"D","P","T","=","5","3">>
TokSrcEmpty == <<"S","R","C","=">>
TokSrcTwoEq == <<"S","R","C","=","a","=","b">>
TokDstEmpty == <<"D","S","T","=">>
TokProtoEmpty == <<"P","R","O","T","O","=">>
TokDptBig == <<"D","P","T","=","7","0","0","0","0">>
TokDptMax == <<"D","P","T","=","6","5","5","3","5">>
TokDptOver == <<"D","P","T","=","6","5","5","3","6">>
TokDptWord == <<"D","P","T","=","s","s","h">>
TokDptEmpty == <<"D","P","T","=">>
TokDptNeg == <<"D","P","T","=","-","1">>
TokDptPlus == <<"D","P","T","=","+","0","8","0">>
TokOutEmpty == <<"O","U","T","=">>
TokOutEth == <<"O","U","T","=","e","t","h","1">>
TokNoKey == <<"=","v">>
TokIn == <<"I","N","=","e","t","h","0">>
TokBare == <<"S","R","C">>
TokLower == <<"s","r","c","=","x">>

RECURSIVE Join(_, _)
Join(toks, sep) ==
  IF toks = <<>> THEN <<>>
  ELSE IF Len(toks) = 1 THEN toks[1]
  ELSE toks[1] \o sep \o Join(Tail(toks), sep)

SeqsUpTo(S, n) == UNION {[1..k -> S] : k \in 0..n}

HdrFull == <<TsUtc, TokHost, KERNEL_MARKER, TokInput, DROP_MARKER>>
HdrKv == <<TsOffset, TokSrcH, KERNEL_MARKER, TokForward, DROP_MARKER>>
HdrShort == <<KERNEL_MARKER, DROP_MARKER>>
HdrGlued == <<TokGlued>>
HdrNoKernel == <<TsUtc, TokHost, TokSshd, TokInput, DROP_MARKER>>
HdrNoDrop == <<TsUtc, TokHost, KERNEL_MARKER, TokInput, TokAccept>>

\* Lines of a well-formed log (two destinations, one line without a port and
\* with its SRC= before the kernel: token) and a denial line with an empty
\* DST= and a bad port.
BasicLines ==
  {Join(HdrFull \o <<TokSrcA, TokDstA, TokTcp, TokDpt22>>, <<" ">>),
   Join(HdrKv \o <<TokOutEth, TokDstB, TokUdp>>, <<" ">>),
   Join(HdrFull \o <<TokSrcA, TokDstEmpty, TokTcp, TokDptWord>>, <<" ">>)}

Headers == {HdrFull, HdrKv, HdrShort, HdrGlued}
Bases == {<<>>, <<TokSrcA, TokDstA, TokTcp>>}
ExtraTokens ==
  {TokSrcEmpty, TokSrcTwoEq, TokDstEmpty, TokDpt22, TokDptBig, TokDptWord,
   TokOutEmpty, TokOutEth}

\* Lines without a marker, with other separators and with rarer tokens.
EdgeLines ==
  {Join(HdrNoKernel \o <<TokSrcA, TokDstA, TokTcp, TokDpt22>>, <<" ">>),
   Join(HdrNoDrop \o <<TokSrcA, TokDstA, TokTcp, TokDpt22>>, <<" ">>),
   Join(<<TsUtc, TokHost, TokSshd, TokAccept>>, <<" ">>),
   Join(HdrFull \o <<TokSrcA, TokDstA, TokTcp, TokDptPlus>>, <<"\t", " ">>),
   <<" ">> \o Join(HdrFull \o <<TokSrcA, TokDstA, TokTcp, TokDptMax>>, <<" ", " ">>) \o <<" ">>,
   Join(HdrFull \o <<TokSrcA, TokDstA, TokTcp, TokDptOver>>, <<" ">>),
   Join(HdrFull \o <<TokSrcA, TokDstA, TokTcp, TokDptNeg>>, <<" ">>),
   Join(HdrFull \o <<TokSrcA, TokDstA, TokTcp, TokDpt53, TokDptEmpty>>, <<" ">>),
   Join(HdrFull \o <<TokSrcA, TokDstA, TokTcp, TokProtoEmpty>>, <<" ">>),
   Join(HdrFull \o <<TokSrcA, TokNoKey, TokDstA, TokTcp>>, <<" ">>),
   Join(HdrFull \o <<TokBare, TokLower, TokIn, TokDstA, TokTcp>>, <<" ">>),
   Join(HdrShort \o <<TokSrcA, TokDstA, TokTcp>>, <<"\t">>),
   Join(<<TokHost, KERNEL_MARKER, DROP_MARKER>>, <<" ">>),
   <<>>}

RichLines ==
  {Join(h \o b \o e, <<" ">>) : h \in Headers, b \in Bases, e \in SeqsUpTo(ExtraTokens, MaxExtra)}
    \cup EdgeLines

\* Args: --format and --top
Formats == {"text", "json", "yaml"}
DefaultArgs == [format |-> "text", top |-> DefaultTop]
AllArgs == [format : Formats, top : 0..MaxTop]

\* What Utc::now() may return, as a second of the day.
ClockTimes == {3599, 82800}

NoReport == <<>>
NoOutput == <<>>

\* ----------------------------------------------------------- state machine
\* main() after Args::parse(), before parse_log_file opens the log.  Logs of
\* up to MaxLines basic lines run under every combination of arguments, the
\* one-line logs over RichLines under the default arguments.
Init ==
  /\ \/ file \in SeqsUpTo(BasicLines, MaxLines) /\ args \in AllArgs
     \/ file \in {<<l>> : l \in RichLines} /\ args = DefaultArgs
  /\ pc = "open"
  /\ pos = 0
  /\ entries = <<>>
  /\ outcomes = <<>>
  /\ err = "none"
  /\ report = NoReport
  /\ dest_iter = <<>>
  /\ output = NoOutput

\* `let file = File::open(path)?; ... let mut entries = Vec::new();`
Open ==
  /\ pc = "open"
  /\ \E ok \in BOOLEAN :
       IF ok THEN pc' = "read" /\ err' = err
             ELSE pc' = "failed" /\ err' = "open"
  /\ UNCHANGED <<args, file, pos, entries, outcomes, report, dest_iter, output>>

\* One iteration of `for line in reader.lines()`: `line?` and the loop body.
ReadLine ==
  /\ pc = "read"
  /\ pos < Len(file)
  /\ \E ok \in BOOLEAN, now \in ClockTimes :
       LET r == ProcessLine(file[pos + 1], now)
       IN IF ~ok
          THEN pc' = "failed" /\ err' = "read"
               /\ UNCHANGED <<pos, entries, outcomes>>
          ELSE IF r.ctl = "panic"
               THEN pc' = "failed" /\ err' = "panic"
                    /\ UNCHANGED <<pos, entries, outcomes>>
               ELSE /\ pos' = pos + 1
                    /\ entries' = PushAll(entries, r.pushed)
                    /\ outcomes' = Append(outcomes, r.pushed)
                    /\ UNCHANGED <<pc, err>>
  /\ UNCHANGED <<args, file, report, dest_iter, output>>

\* The iterator is exhausted: `Ok(entries)`.
EndOfFile ==
  /\ pc = "read"
  /\ pos = Len(file)
  /\ pc' = "analyze"
  /\ UNCHANGED <<args, file, pos, entries, outcomes, err, report, dest_iter, output>>

\* `let report = analyze_entries(entries);`
Analyze ==
  /\ pc = "analyze"
  /\ \E order \in Orderings(DOMAIN CountKeys(DestKeys(entries))) :
       /\ dest_iter' = order
       /\ report' = AnalysisReport(entries, order)
  /\ pc' = "render"
  /\ UNCHANGED <<args, file, pos, entries, outcomes, err, output>>

\* `"json" => println!("{}", serde_json::to_string_pretty(&report)?)`
RenderJson ==
  /\ pc = "render"
  /\ args.format = "json"
  /\ \E ok \in BOOLEAN :
       IF ok THEN pc' = "done" /\ output' = JsonReport(report) /\ err' = err
             ELSE pc' = "failed" /\ err' = "encode" /\ output' = output
  /\ UNCHANGED <<args, file, pos, entries, outcomes, report, dest_iter>>

\* `_ => print_text_report(&report, args.top)`
RenderText ==
  /\ pc = "render"
  /\ args.format # "json"
  /\ \E portOrder \in Orderings(DOMAIN report.port_distribution) :
       output' = TextReport(report, args.top, portOrder)
  /\ pc' = "done"
  /\ UNCHANGED <<args, file, pos, entries, outcomes, err, report, dest_iter>>

Next == Open \/ ReadLine \/ EndOfFile \/ Analyze \/ RenderJson \/ RenderText

Spec == Init /\ [][Next]_vars

\* ------------------------------------------------- vocabulary of the claims
\* The claims speak of a line's tokens, of a token's key (the text before its
\* first '=') and value (the text between its first and second '='), and of
\* the last token carrying a key.  These are stated here by position, not by
\* the scan of parse_log_file.
HasMarkers(line) ==
  /\ \E i \in 1..(Len(line) - Len(KERNEL_MARKER) + 1) :
        SubSeq(line, i, i + Len(KERNEL_MARKER) - 1) = KERNEL_MARKER
  /\ \E i \in 1..(Len(line) - Len(DROP_MARKER) + 1) :
        SubSeq(line, i, i + Len(DROP_MARKER) - 1) = DROP_MARKER
\* The maximal runs of non-whitespace characters, left to right.
TokenStarts(line) ==
  {i \in 1..Len(line) : ~IsWhitespace(line[i]) /\ (i = 1 \/ IsWhitespace(line[i - 1]))}
TokenFrom(line, i) ==
  LET stops == {j \in i..Len(line) : j = Len(line) \/ IsWhitespace(line[j + 1])}
  IN SubSeq(line, i, CHOOSE j \in stops : \A m \in stops : j <= m)
TokensOfLine(line) ==
  LET starts == TokenStarts(line)
  IN [k \in 1..Cardinality(starts) |->
        TokenFrom(line, CHOOSE i \in starts : Cardinality({j \in starts : j < i}) = k - 1)]
EqPositions(tok) == {i \in 1..Len(tok) : tok[i] = "="}
EqCount(tok) == Cardinality(EqPositions(tok))
FirstEq(tok) == CHOOSE i \in EqPositions(tok) : \A j \in EqPositions(tok) : i <= j
KeyText(tok) == SubSeq(tok, 1, FirstEq(tok) - 1)
ValueText(tok) ==
  LET later == {i \in EqPositions(tok) : i > FirstEq(tok)}
      stop == IF later = {} THEN Len(tok) + 1
              ELSE CHOOSE i \in later : \A j \in later : i <= j
  IN SubSeq(tok, FirstEq(tok) + 1, stop - 1)
Carries(tok, key) == EqCount(tok) >= 1 /\ KeyText(tok) = key
KeyedAt(toks, key) == {k \in 1..Len(toks) : Carries(toks[k], key)}
LastIn(S) == IF S = {} THEN 0 ELSE CHOOSE k \in S : \A m \in S : m <= k
LastKeyed(toks, key) == LastIn(KeyedAt(toks, key))
LastValue(toks, key) ==
  LET k == LastKeyed(toks, key)
  IN IF k = 0 THEN <<>> ELSE ValueText(toks[k])

RECURSIVE DecimalValue(_)
DecimalValue(ds) ==
  IF ds = <<>> THEN 0
  ELSE DecimalValue(SubSeq(ds, 1, Len(ds) - 1)) * 10 + DigitVal(ds[Len(ds)])
\* v is the text of an unsigned 16-bit integer: digits, after at most one '+'.
IsU16Text(v) ==
  LET ds == IF v # <<>> /\ v[1] = "+" THEN Tail(v) ELSE v
  IN ds # <<>> /\ (\A i \in 1..Len(ds) : ds[i] \in DigitChars) /\ DecimalValue(ds) <= 65535
U16Value(v) == DecimalValue(IF v[1] = "+" THEN Tail(v) ELSE v)

FieldKeys == {KEY_SRC, KEY_DST, KEY_PROTO, KEY_OUT, KEY_DPT}
\* What the claims read of one line, computed once per input line.
LineFacts(line) ==
  LET toks == TokensOfLine(line)
  IN [tokens |-> toks,
      marked |-> HasMarkers(line),
      lastAt |-> [key \in FieldKeys |-> LastKeyed(toks, key)],
      last |-> [key \in FieldKeys |-> LastValue(toks, key)],
      values |-> [key \in FieldKeys |-> {ValueText(toks[k]) : k \in KeyedAt(toks, key)}]]
FactsOf == [line \in BasicLines \cup RichLines |-> LineFacts(line)]

\* The lines read so far, by position in the file.
LinesRead == 1..Len(outcomes)
Facts(i) == FactsOf[file[i]]
Emitted(i) == outcomes[i] # <<>>
RecordOf(i) == outcomes[i][1]
\* Line i passes both filters of the loop: markers and token count.
Scanned(i) == Facts(i).marked /\ Len(Facts(i).tokens) >= 6
LastRequiredPresent(i) ==
  /\ Facts(i).last[KEY_SRC] # <<>>
  /\ Facts(i).last[KEY_DST] # <<>>
  /\ Facts(i).last[KEY_PROTO] # <<>>

RECURSIVE Flatten(_)
Flatten(ss) == IF ss = <<>> THEN <<>> ELSE ss[1] \o Flatten(Tail(ss))

RECURSIVE SumOver(_, _)
SumOver(m, keys) ==
  IF keys = {} THEN 0
  ELSE LET k == CHOOSE x \in keys : TRUE IN m[k] + SumOver(m, keys \ {k})
SumOfMap(m) == SumOver(m, DOMAIN m)
RECURSIVE SumOfPairs(_)
SumOfPairs(ps) == IF ps = <<>> THEN 0 ELSE ps[1][2] + SumOfPairs(Tail(ps))

\* ------------------------------------------------------------------ claims

\* C1 as stated: every line that has both markers and a SRC=, a DST= and a
\* PROTO= token with a non-empty value yields exactly one record, with action
\* "DENIED" and source, destination and protocol taken from such tokens,
\* whatever the number of tokens and whatever keys are repeated.
C1_AnyMarkedLineEmits ==
  \A i \in LinesRead :
    LET vals(key) == Facts(i).values[key] \ {<<>>}
    IN (Facts(i).marked /\ vals(KEY_SRC) # {} /\ vals(KEY_DST) # {} /\ vals(KEY_PROTO) # {})
       => /\ Len(outcomes[i]) = 1
          /\ RecordOf(i).action = ACTION_DENIED
          /\ RecordOf(i).source_ip \in vals(KEY_SRC)
          /\ RecordOf(i).dest_ip \in vals(KEY_DST)
          /\ RecordOf(i).protocol \in vals(KEY_PROTO)

\* C1, amended: every line that has both markers, at least 6 tokens, and
\* whose last SRC=, last DST= and last PROTO= token each carry a non-empty
\* value yields exactly one record, with action "DENIED" and source,
\* destination and protocol equal to those last values.
C1_ScannedLineEmits ==
  \A i \in LinesRead :
    (Scanned(i) /\ LastRequiredPresent(i))
    => /\ Len(outcomes[i]) = 1
       /\ RecordOf(i).action = ACTION_DENIED
       /\ RecordOf(i).source_ip = Facts(i).last[KEY_SRC]
       /\ RecordOf(i).dest_ip = Facts(i).last[KEY_DST]
       /\ RecordOf(i).protocol = Facts(i).last[KEY_PROTO]

\* C1 witness: a line of exactly 6 tokens, one of them a repeated key, has
\* been read and has produced its record.
C1_Witness ==
  \E i \in LinesRead :
    /\ Scanned(i) /\ LastRequiredPresent(i) /\ Emitted(i)
    /\ Len(Facts(i).tokens) = 6
    /\ \E key \in {KEY_SRC, KEY_DST, KEY_PROTO} :
         Cardinality(KeyedAt(Facts(i).tokens, key)) >= 2

\* C2: a line yields a record only if it has both markers, at least 6
\* tokens, and non-empty source, destination and protocol; no line yields more
\* than one record; every record in the parsed list has non-empty source_ip,
\* dest_ip and protocol.
C2_RecordOnlyFromValidLine ==
  /\ \A i \in LinesRead :
       /\ Len(outcomes[i]) <= 1
       /\ Emitted(i) =>
            /\ Facts(i).marked
            /\ Len(Facts(i).tokens) >= 6
            /\ LastRequiredPresent(i)
  /\ \A n \in 1..Len(entries) :
       entries[n].source_ip # <<>> /\ entries[n].dest_ip # <<>> /\ entries[n].protocol # <<>>

\* C2 witness: a line with both markers and at least 6 tokens has been read
\* and dropped because its destination is empty although its source is set,
\* and a record of another line is in the list.
C2_Witness ==
  /\ entries # <<>>
  /\ \E i \in LinesRead :
       /\ Scanned(i) /\ ~Emitted(i)
       /\ Facts(i).last[KEY_SRC] # <<>>
       /\ Facts(i).last[KEY_DST] = <<>>

HasReport == pc \in {"render", "done"} \/ err = "encode"
HasTextOutput == pc = "done" /\ args.format # "json"
Min(a, b) == IF a < b THEN a ELSE b

C5_CountsSumToTotal ==
  HasReport =>
    LET n == Len(entries)
        withPort == {k \in 1..Len(entries) : entries[k].dest_port # None}
    IN /\ report.total_denials = n
       /\ SumOfMap(report.protocol_distribution) = n
       /\ SumOfMap(report.chain_distribution) = n
       /\ SumOfMap(report.hourly_distribution) = n
       /\ SumOfPairs(report.top_dest_ips) = n
       /\ SumOfMap(report.port_distribution) = Cardinality(withPort)
       /\ n = 0 => /\ DOMAIN report.protocol_distribution = {}
                   /\ DOMAIN report.chain_distribution = {}
                   /\ DOMAIN report.hourly_distribution = {}
                   /\ DOMAIN report.port_distribution = {}
                   /\ report.top_dest_ips = <<>>

\* C5 witness: a report over three records, some with and some without a
\* port, two of them sharing a protocol.
C5_Witness ==
  /\ HasReport
  /\ report.total_denials = 3
  /\ SumOfMap(report.port_distribution) \in {1, 2}
  /\ \E k \in DOMAIN report.protocol_distribution : report.protocol_distribution[k] >= 2

FirstSeen(ip) ==
  CHOOSE n \in 1..Len(entries) :
    entries[n].dest_ip = ip /\ \A m \in 1..(n - 1) : entries[m].dest_ip # ip
EnumeratedAt(ip) == CHOOSE n \in 1..Len(dest_iter) : dest_iter[n] = ip

\* C7 as stated: two destinations with equal counts appear in top_dest_ips
\* in the order in which they were first met in the record sequence.
C7_TiesInFirstSeenOrder ==
  HasReport =>
    \A i, j \in 1..Len(report.top_dest_ips) :
      (i < j /\ report.top_dest_ips[i][2] = report.top_dest_ips[j][2])
      => FirstSeen(report.top_dest_ips[i][1]) < FirstSeen(report.top_dest_ips[j][1])

\* C7, amended: two destinations with equal counts appear in top_dest_ips in
\* the order in which the counting map enumerated them (the sort is stable);
\* that order is not fixed by the record sequence.
C7_TiesInEnumerationOrder ==
  HasReport =>
    \A i, j \in 1..Len(report.top_dest_ips) :
      (i < j /\ report.top_dest_ips[i][2] = report.top_dest_ips[j][2])
      => EnumeratedAt(report.top_dest_ips[i][1]) < EnumeratedAt(report.top_dest_ips[j][1])

\* C7 witness: a report in which two destinations tie and stand in the
\* reverse of the order in which they were first met.
C7_Witness ==
  /\ HasReport
  /\ \E i, j \in 1..Len(report.top_dest_ips) :
       /\ i < j
       /\ report.top_dest_ips[i][2] = report.top_dest_ips[j][2]
       /\ FirstSeen(report.top_dest_ips[i][1]) > FirstSeen(report.top_dest_ips[j][1])

\* C8: the parsed list is the records of the accepted lines, at most one per
\* line and in line order; the report's entries are that list, unchanged,
\* and its length is total_denials.
C8_EntriesAreParsedRecords ==
  /\ \A i \in LinesRead : Len(outcomes[i]) <= 1
  /\ entries = Flatten(outcomes)
  /\ HasReport =>
       /\ report.entries = Flatten(outcomes)
       /\ report.entries = entries
       /\ Len(report.entries) = report.total_denials

\* C8 witness: a report over two different records whose lines had a dropped
\* line between them.
C8_Witness ==
  /\ HasReport
  /\ Len(outcomes) = 3 /\ Emitted(1) /\ ~Emitted(2) /\ Emitted(3)
  /\ Len(report.entries) = 2
  /\ report.entries[1] = RecordOf(1) /\ report.entries[2] = RecordOf(3)
  /\ RecordOf(1) # RecordOf(3)

\* The values of the tokens in `at` that carry key.
ValuesAt(toks, at, key) == {ValueText(toks[k]) : k \in {m \in at : Carries(toks[m], key)}}
\* Every set field of the record of line i comes from a token in `at`.
FieldsComeFrom(i, at) ==
  LET toks == Facts(i).tokens
      r == RecordOf(i)
  IN /\ r.source_ip \in ValuesAt(toks, at, KEY_SRC)
     /\ r.dest_ip \in ValuesAt(toks, at, KEY_DST)
     /\ r.protocol \in ValuesAt(toks, at, KEY_PROTO)
     /\ r.interface # None => r.interface[1] \in ValuesAt(toks, at, KEY_OUT)
     /\ r.dest_port # None =>
          \E v \in ValuesAt(toks, at, KEY_DPT) : IsU16Text(v) /\ U16Value(v) = r.dest_port[1]

\* C9 as stated: a field of a record is set only by a token that lies after
\* token 3 and contains exactly one '='.
C9_OnlyLaterSingleEqTokens ==
  \A i \in LinesRead :
    Emitted(i) =>
      FieldsComeFrom(i, {k \in 5..Len(Facts(i).tokens) : EqCount(Facts(i).tokens[k]) = 1})

\* C9, amended: a field of a record is set only by a token that contains a
\* '=' and whose text before the first '=' is the field's key, the value
\* being the text between the first and the second '='; the token may stand
\* anywhere in the line (tokens 0 to 3 included) and may contain further '='.
C9_FieldsFromKeyedTokens ==
  \A i \in LinesRead :
    Emitted(i) => FieldsComeFrom(i, 1..Len(Facts(i).tokens))

\* C9 witness: a record whose source address was set by one of tokens 0 to
\* 3, no later token carrying SRC.
C9_Witness ==
  \E i \in LinesRead :
    /\ Emitted(i)
    /\ Facts(i).lastAt[KEY_SRC] \in 1..4
    /\ RecordOf(i).source_ip = Facts(i).last[KEY_SRC]

\* C10: on a line that reaches the scan, the last SRC=, DST=, PROTO= and
\* DPT= token decides its field: the line gives a record exactly when the
\* last SRC, DST and PROTO values are non-empty, the port is the last DPT
\* value if that is a u16 and absent otherwise; the interface is the value of
\* the last OUT= token whose value is non-empty.
C10_LastTokenDecides ==
  \A i \in LinesRead :
    Scanned(i) =>
      /\ Emitted(i) <=> LastRequiredPresent(i)
      /\ Emitted(i) =>
           LET toks == Facts(i).tokens
               dpt == Facts(i).last[KEY_DPT]
               outs == {k \in KeyedAt(toks, KEY_OUT) : ValueText(toks[k]) # <<>>}
           IN /\ RecordOf(i).source_ip = Facts(i).last[KEY_SRC]
              /\ RecordOf(i).dest_ip = Facts(i).last[KEY_DST]
              /\ RecordOf(i).protocol = Facts(i).last[KEY_PROTO]
              /\ RecordOf(i).dest_port =
                   IF Facts(i).lastAt[KEY_DPT] # 0 /\ IsU16Text(dpt)
                   THEN Some(U16Value(dpt)) ELSE None
              /\ RecordOf(i).interface =
                   IF outs = {} THEN None ELSE Some(ValueText(toks[LastIn(outs)]))

\* C10 witness: a line was dropped because its last SRC= is empty although
\* an earlier SRC= token had a value.
C10_Witness ==
  \E i \in LinesRead :
    /\ Scanned(i) /\ ~Emitted(i)
    /\ Facts(i).last[KEY_SRC] = <<>>
    /\ Facts(i).last[KEY_DST] # <<>> /\ Facts(i).last[KEY_PROTO] # <<>>
    /\ Facts(i).values[KEY_SRC] \ {<<>>} # {}

====
